---- MODULE Spec2Model ----
(***************************************************************************)
(* Click-to-move interaction layer of the chess GUI (src/src/main.rs).     *)
(*                                                                         *)
(* The program state is the AppState struct: the rule engine instance      *)
(* `game`, the highlighted squares `legal`, `previous_click`, `promoting`, *)
(* `pending_promotion_move` and the capture ledger `deaths`.  The only     *)
(* operation is the pointer-release handler mouse_button_up_event.         *)
(*                                                                         *)
(* The rule engine (crate eliasfl_chess) is an external collaborator: it   *)
(* is modelled from its interface in spec.md section 6 with the standard   *)
(* movement rules of chess (no castling, no en passant: neither is         *)
(* possible in any position explored here).                                *)
(*                                                                         *)
(* Pointer input is bounded: the user follows one of two opening lines     *)
(* (sequences of clicks starting at the freshly constructed state) and     *)
(* may at any time insert up to MaxExtra further clicks taken from         *)
(* ExtraClicks.  Every state explored is reached through the handler.      *)
(*                                                                         *)
(* The coordinate translators are pure functions.  CoordSpec runs them on  *)
(* every pointer position of CoordInputs, one translation per step.        *)
(* OverlaySpec aims the pointer at every x up to MaxX and at the icons of  *)
(* the promotion window, and runs the choice of the piece on it.           *)
(***************************************************************************)
EXTENDS Integers, Sequences, FiniteSets, TLC

\* ------------------------------------------------------------------------
\* Bounds of the exploration
\* ------------------------------------------------------------------------

\* Number of clicks outside the opening line the user may insert.
MaxExtra == 2

\* The x positions of OverlaySpec are 0..MaxX (the window is 720 wide).
MaxX == 760

\* ------------------------------------------------------------------------
\* Constants of the program
\* ------------------------------------------------------------------------

\* GRID_CELL_SIZE.0 / GRID_CELL_SIZE.1: pixels per tile.
GRID_CELL_SIZE == 90

\* y below which a release is a board click (`if y < 720.0`).
BOARD_HEIGHT == 720

\* Option<T>: None is the empty tuple, Some(v) a one-element tuple.
None == << >>
Some(v) == << v >>
IsSome(o) == o # None
Unwrap(o) == o[1]

\* u8 arithmetic wraps at 2^8.
U8(n) == n % 256

\* Rust integer division truncates toward zero.
TruncDiv(a, b) == IF a >= 0 THEN a \div b ELSE -((-a) \div b)

\* ------------------------------------------------------------------------
\* Rule engine (eliasfl_chess), modelled from its interface
\* ------------------------------------------------------------------------

White == "White"
Black == "Black"

\* Colour's negation (`!self.game.active_color`).
Not(c) == IF c = White THEN Black ELSE White

\* Piece(kind, colour); an empty square is modelled by Empty.
Piece(k, c) == [kind |-> k, colour |-> c]
Empty == [kind |-> "Empty", colour |-> "Empty"]

\* Position { file, rank }, both 1-indexed.
Position(f, r) == [file |-> f, rank |-> r]
Positions == { Position(f, r) : f \in 1..8, r \in 1..8 }
OnBoard(f, r) == f \in 1..8 /\ r \in 1..8

BackRank == << "Rook", "Knight", "Bishop", "Queen", "King", "Bishop", "Knight", "Rook" >>

\* The standard starting position.
StartBoard ==
  [ p \in Positions |->
      CASE p.rank = 1 -> Piece(BackRank[p.file], White)
        [] p.rank = 2 -> Piece("Pawn", White)
        [] p.rank = 7 -> Piece("Pawn", Black)
        [] p.rank = 8 -> Piece(BackRank[p.file], Black)
        [] OTHER -> Empty ]

RookDirs == { <<1, 0>>, <<-1, 0>>, <<0, 1>>, <<0, -1>> }
BishopDirs == { <<1, 1>>, <<1, -1>>, <<-1, 1>>, <<-1, -1>> }
KnightJumps == { <<1, 2>>, <<2, 1>>, <<-1, 2>>, <<-2, 1>>,
                 <<1, -2>>, <<2, -1>>, <<-1, -2>>, <<-2, -1>> }

\* Squares a slider on p reaches along the directions ds: every square up to
\* and including the first occupied one.
Slide(board, p, ds) ==
  { Position(p.file + k * d[1], p.rank + k * d[2]) : <<d, k>> \in
      { dk \in ds \X (1..7) :
          /\ OnBoard(p.file + dk[2] * dk[1][1], p.rank + dk[2] * dk[1][2])
          /\ \A j \in 1..(dk[2] - 1) :
               board[Position(p.file + j * dk[1][1], p.rank + j * dk[1][2])] = Empty } }

\* Squares reached by a single step or jump.
Step(p, ds) ==
  { Position(p.file + d[1], p.rank + d[2]) : d \in
      { e \in ds : OnBoard(p.file + e[1], p.rank + e[2]) } }

\* The direction a pawn of colour c advances in.
Forward(c) == IF c = White THEN 1 ELSE -1

\* Squares attacked by the piece standing on p.
Attacks(board, p) ==
  LET pc == board[p] IN
  CASE pc.kind = "Pawn" -> Step(p, { <<1, Forward(pc.colour)>>, <<-1, Forward(pc.colour)>> })
    [] pc.kind = "Knight" -> Step(p, KnightJumps)
    [] pc.kind = "King" -> Step(p, RookDirs \cup BishopDirs)
    [] pc.kind = "Rook" -> Slide(board, p, RookDirs)
    [] pc.kind = "Bishop" -> Slide(board, p, BishopDirs)
    [] pc.kind = "Queen" -> Slide(board, p, RookDirs \cup BishopDirs)
    [] OTHER -> {}

\* Moves of the piece on p that follow its movement rule, king safety aside.
PseudoMoves(board, p) ==
  LET pc == board[p]
      fw == Forward(pc.colour)
      one == Position(p.file, p.rank + fw)
      two == Position(p.file, p.rank + 2 * fw)
      home == IF pc.colour = White THEN 2 ELSE 7
  IN IF pc.kind = "Pawn"
     THEN { t \in Attacks(board, p) : board[t].colour = Not(pc.colour) }
          \cup (IF OnBoard(one.file, one.rank) /\ board[one] = Empty
                THEN {one} \cup (IF p.rank = home /\ board[two] = Empty THEN {two} ELSE {})
                ELSE {})
     ELSE { t \in Attacks(board, p) : board[t].colour # pc.colour }

\* The king of colour c is attacked.
InCheck(board, c) ==
  \E p \in Positions :
    /\ board[p].colour = Not(c)
    /\ \E t \in Attacks(board, p) : board[t] = Piece("King", c)

PromotionKind(name) ==
  CASE name = "queen" -> "Queen"
    [] name = "knight" -> "Knight"
    [] name = "rook" -> "Rook"
    [] name = "bishop" -> "Bishop"

\* The board after the piece on from has moved to to; a pawn reaching the
\* last rank becomes the piece chosen by set_promotion.
MovePiece(board, from, to, promotion) ==
  LET pc == board[from]
      last == IF pc.colour = White THEN 8 ELSE 1
      landed == IF pc.kind = "Pawn" /\ to.rank = last
                THEN Piece(PromotionKind(promotion), pc.colour) ELSE pc
  IN [board EXCEPT ![from] = Empty, ![to] = landed]

\* Legal destinations of the piece on p for the side c to move.
LegalFrom(board, c, p) ==
  IF board[p].colour # c THEN {}
  ELSE { t \in PseudoMoves(board, p) : ~InCheck(MovePiece(board, p, t, "queen"), c) }

InProgress == "InProgress"
Check == "Check"
CheckMate == "CheckMate"

\* GameState of the position with c to move.
StateOf(board, c) ==
  IF ~InCheck(board, c) THEN InProgress
  ELSE IF \E p \in Positions : LegalFrom(board, c, p) # {} THEN Check
  ELSE CheckMate

\* Game::new()
GameNew ==
  [board |-> StartBoard, active_color |-> White, promotion |-> "queen", state |-> InProgress]

\* Game::get_game_state()
get_game_state(game) == game.state

\* Strings are sequences of bytes; the engine reads "<file><rank>".
ParsePosition(s) ==
  IF Len(s) = 2 /\ s[1] \in 97..104 /\ s[2] \in 49..56
  THEN Some(Position(s[1] - 96, s[2] - 48)) ELSE None

FormatPosition(p) == << p.file + 96, p.rank + 48 >>

\* board.get(&position)
board_get(game, p) ==
  IF p \in Positions /\ game.board[p] # Empty THEN Some(game.board[p]) ELSE None

\* Game::get_possible_moves(square): None when there is no legal move.
get_possible_moves(game, s) ==
  LET p == ParsePosition(s)
      ms == IF IsSome(p) THEN LegalFrom(game.board, game.active_color, Unwrap(p)) ELSE {}
  IN IF ms = {} THEN None ELSE Some({ FormatPosition(t) : t \in ms })

\* Game::make_move(from, to): [ok, game]; a rejected move changes nothing.
make_move(game, from, to) ==
  LET f == ParsePosition(from)
      t == ParsePosition(to)
  IN IF IsSome(f) /\ IsSome(t)
        /\ Unwrap(t) \in LegalFrom(game.board, game.active_color, Unwrap(f))
     THEN LET b == MovePiece(game.board, Unwrap(f), Unwrap(t), game.promotion)
              c == Not(game.active_color)
          IN [ok |-> TRUE,
              game |-> [game EXCEPT !.board = b, !.active_color = c, !.state = StateOf(b, c)]]
     ELSE [ok |-> FALSE, game |-> game]

\* Game::set_promotion(name)
set_promotion(game, name) ==
  IF name \in {"queen", "knight", "rook", "bishop"}
  THEN [ok |-> TRUE, game |-> [game EXCEPT !.promotion = name]]
  ELSE [ok |-> FALSE, game |-> game]

\* ------------------------------------------------------------------------
\* Coordinate translation (main.rs, bottom)
\* ------------------------------------------------------------------------

\* Mutant of num_to_filerank: the rank is counted from the top of the screen.
num_to_filerank_NoFlip(_coords) == << U8(_coords[1] + 97), U8(49 + _coords[2]) >>

\* num_to_filerank: (column, row) to the bytes of "<file><rank>".
num_to_filerank(_coords) == << U8(_coords[1] + 97), U8(56 - _coords[2]) >>

\* filerank_to_num: the bytes of "<file><rank>" to (column, row).
filerank_to_num(_filerank) == << U8(_filerank[1] - 97), U8(56 - _filerank[2]) >>

\* Mutant of to_engine_coords: the rank is counted from the top of the screen.
to_engine_coords_NoFlip(_coords) == Position(U8(_coords[1] + 1), U8(_coords[2] + 1))

\* to_engine_coords: (column, row) to the engine's Position.
to_engine_coords(_coords) == Position(U8(_coords[1] + 1), U8(8 - _coords[2]))

\* The u8 additions and subtractions of the translators leave 0..255: a
\* debug build panics there, a release build wraps.
num_to_filerank_overflows(_coords) == _coords[1] + 97 > 255 \/ 56 - _coords[2] < 0
filerank_to_num_overflows(_filerank) == _filerank[1] - 97 < 0 \/ 56 - _filerank[2] < 0
to_engine_coords_overflows(_coords) == _coords[1] + 1 > 255 \/ 8 - _coords[2] < 0

\* ------------------------------------------------------------------------
\* AppState
\* ------------------------------------------------------------------------

VARIABLES
  game,                   \* the rule engine instance
  legal,                  \* legal destinations of the selected piece (GUI squares)
  previous_click,         \* Option<(u8, u8)>
  promoting,              \* a promotion choice is awaited
  pending_promotion_move, \* PendingMove { _from, _to }
  deaths,                 \* Colour -> captured pieces, in capture order
  panicked,               \* the handler aborted on an unwrap of None
  calls,                  \* engine calls and ledger pushes of the last event, in order
  event,                  \* the last pointer release: [button, x, y], None before the first
  pre,                    \* AppState as it was when the last event arrived
  line,                   \* the opening line the user follows (0: not yet chosen)
  pos,                    \* clicks of that line already made
  extra,                  \* clicks made outside the line
  conv                    \* the translation in progress (CoordSpec only)

appvars == << game, legal, previous_click, promoting, pending_promotion_move, deaths, panicked >>
vars == << game, legal, previous_click, promoting, pending_promotion_move, deaths, panicked,
           calls, event, pre, line, pos, extra, conv >>

PendingMove(from, to) == [_from |-> from, _to |-> to]
NoPendingMove == PendingMove(<< >>, << >>)

\* AppState::new
AppStateNew ==
  [game |-> GameNew,
   legal |-> {},
   previous_click |-> None,
   promoting |-> FALSE,
   pending_promotion_move |-> NoPendingMove,
   deaths |-> [c \in {White, Black} |-> << >>],
   panicked |-> FALSE,
   calls |-> << >>]

\* The current AppState as one record.
AppState ==
  [game |-> game,
   legal |-> legal,
   previous_click |-> previous_click,
   promoting |-> promoting,
   pending_promotion_move |-> pending_promotion_move,
   deaths |-> deaths,
   panicked |-> panicked,
   calls |-> << >>]

Call(s, c) == [s EXCEPT !.calls = Append(@, c)]

\* Mutant of RecordDeath: the piece is inserted at the front of the list.
RecordDeath_AtFront(s, square) ==
  LET found == board_get(s.game, to_engine_coords(square))
      s1 == Call(s, << "board.get", to_engine_coords(square) >>)
      side == Not(s.game.active_color)
  IN IF IsSome(found)
     THEN Call([s1 EXCEPT !.deaths[side] = << Unwrap(found) >> \o @],
               << "deaths.push", side, Unwrap(found) >>)
     ELSE s1

\* `if let Some(_piece) = self.game.board.get(..) { self.deaths.get_mut(&!active).push(_piece) }`
RecordDeath(s, square) ==
  LET found == board_get(s.game, to_engine_coords(square))
      s1 == Call(s, << "board.get", to_engine_coords(square) >>)
      side == Not(s.game.active_color)
  IN IF IsSome(found)
     THEN Call([s1 EXCEPT !.deaths[side] = Append(@, Unwrap(found))],
               << "deaths.push", side, Unwrap(found) >>)
     ELSE s1

\* Mutant of MakeMove: the result is unwrapped, a rejected move panics.
MakeMove_Unwraps(s, from, to) ==
  LET r == make_move(s.game, from, to) IN
  Call([s EXCEPT !.game = r.game, !.panicked = @ \/ ~r.ok], << "make_move", from, to >>)

\* `self.game.make_move(from, to).ok()`: the result is dropped.
MakeMove(s, from, to) ==
  Call([s EXCEPT !.game = make_move(s.game, from, to).game], << "make_move", from, to >>)

\* Mutant of NormalMove: legal is not cleared after the move.
NormalMove_KeepsLegal(s, square_clicked, from, to) ==
  MakeMove(RecordDeath(s, square_clicked), from, to)

\* Mutant of NormalMove: the previous click is forgotten after the move.
NormalMove_ForgetsClick(s, square_clicked, from, to) ==
  [MakeMove(RecordDeath(s, square_clicked), from, to) EXCEPT
     !.legal = {}, !.previous_click = None]

\* The immediate move: ledger, make_move, legal.clear().
NormalMove(s, square_clicked, from, to) ==
  [MakeMove(RecordDeath(s, square_clicked), from, to) EXCEPT !.legal = {}]

\* Mutant of StartPromotion: the move is stored and also made at once.
StartPromotion_AlsoMoves(s, from, to) ==
  [MakeMove(s, from, to) EXCEPT
     !.promoting = TRUE, !.pending_promotion_move = PendingMove(from, to)]

\* A pawn reached the edge: the move is stored until the piece is chosen.
StartPromotion(s, from, to) ==
  [s EXCEPT !.promoting = TRUE, !.pending_promotion_move = PendingMove(from, to)]

\* The clicked square is a legal destination of the previous click.
MoveOrAttack(s, square_clicked) ==
  LET prev == Unwrap(s.previous_click)
      piece == board_get(s.game, to_engine_coords(prev))
      s1 == Call(s, << "board.get", to_engine_coords(prev) >>)
      from == num_to_filerank(prev)
      to == num_to_filerank(square_clicked)
  IN IF ~IsSome(piece) THEN [s1 EXCEPT !.panicked = TRUE]
     ELSE IF Unwrap(piece).kind = "Pawn"
     THEN IF \/ Unwrap(piece).colour = Black /\ square_clicked[2] = 7
             \/ Unwrap(piece).colour = White /\ square_clicked[2] = 0
          THEN StartPromotion(s1, from, to)
          ELSE NormalMove(s1, square_clicked, from, to)
     ELSE NormalMove(s1, square_clicked, from, to)

\* Mutant of Select: the clicked square is not remembered.
Select_KeepsClick(s, square_clicked) ==
  LET square_as_filerank == num_to_filerank(square_clicked)
      moves == get_possible_moves(s.game, square_as_filerank)
      list == IF moves = None THEN {} ELSE Unwrap(moves)
  IN Call([s EXCEPT !.legal = { filerank_to_num(m) : m \in list }],
          << "get_possible_moves", square_as_filerank >>)

\* Mutant of Select: the old legal moves are not cleared first.
Select_KeepsLegal(s, square_clicked) ==
  LET square_as_filerank == num_to_filerank(square_clicked)
      moves == get_possible_moves(s.game, square_as_filerank)
      list == IF moves = None THEN {} ELSE Unwrap(moves)
  IN Call([s EXCEPT !.previous_click = Some(square_clicked),
                    !.legal = @ \cup { filerank_to_num(m) : m \in list }],
          << "get_possible_moves", square_as_filerank >>)

\* The clicked square is no legal destination: it becomes the selection.
Select(s, square_clicked) ==
  LET square_as_filerank == num_to_filerank(square_clicked)
      moves == get_possible_moves(s.game, square_as_filerank)
      list == IF moves = None THEN {} ELSE Unwrap(moves)
  IN Call([s EXCEPT !.previous_click = Some(square_clicked),
                    !.legal = { filerank_to_num(m) : m \in list }],
          << "get_possible_moves", square_as_filerank >>)

\* The square under the pointer: `(x as i16 / 90) as u8`.
SquareClicked(x, y) ==
  << U8(TruncDiv(x, GRID_CELL_SIZE)), U8(TruncDiv(y, GRID_CELL_SIZE)) >>

\* Mutant of BoardClick: the test against the previous click is missing.
BoardClick_NoRepeatTest(s, x, y) ==
  LET square_clicked == SquareClicked(x, y) IN
  IF square_clicked \in s.legal /\ s.previous_click # None
  THEN MoveOrAttack(s, square_clicked)
  ELSE Select(s, square_clicked)

\* Clicks within the board grid.
BoardClick(s, x, y) ==
  LET square_clicked == SquareClicked(x, y) IN
  IF s.previous_click = Some(square_clicked) THEN s
  ELSE IF square_clicked \in s.legal /\ s.previous_click # None
       THEN MoveOrAttack(s, square_clicked)
       ELSE Select(s, square_clicked)

\* The icons of the promotion window in the order draw() places them, with
\* the x of their destination.
PromotionIcons ==
  << [kind |-> "queen", x |-> 50], [kind |-> "knight", x |-> 230],
     [kind |-> "rook", x |-> 410], [kind |-> "bishop", x |-> 590] >>

\* Mutant of ChoosePiece: every band begins 40 further to the right.
ChoosePiece_NarrowBands(s, x) ==
  LET name == CASE x >= 60 /\ x <= 200 -> "queen"
                [] x > 240 /\ x <= 380 -> "knight"
                [] x > 420 /\ x <= 560 -> "rook"
                [] x > 600 /\ x <= 740 -> "bishop"
                [] OTHER -> ""
  IN IF name = "" THEN s
     ELSE Call([s EXCEPT !.game = set_promotion(s.game, name).game],
               << "set_promotion", name >>)

\* Mutant of ChoosePiece: knight and queen have changed places.
ChoosePiece_KnightFirst(s, x) ==
  LET name == CASE x >= 20 /\ x <= 200 -> "knight"
                [] x > 200 /\ x <= 380 -> "queen"
                [] x > 380 /\ x <= 560 -> "rook"
                [] x > 560 /\ x <= 740 -> "bishop"
                [] OTHER -> ""
  IN IF name = "" THEN s
     ELSE Call([s EXCEPT !.game = set_promotion(s.game, name).game],
               << "set_promotion", name >>)

\* The four icons of the promotion window, left to right.
ChoosePiece(s, x) ==
  LET name == CASE x >= 20 /\ x <= 200 -> "queen"
                [] x > 200 /\ x <= 380 -> "knight"
                [] x > 380 /\ x <= 560 -> "rook"
                [] x > 560 /\ x <= 740 -> "bishop"
                [] OTHER -> ""
  IN IF name = "" THEN s
     ELSE Call([s EXCEPT !.game = set_promotion(s.game, name).game],
               << "set_promotion", name >>)

\* Mutant of PromotionClick: the move is made before the ledger lookup.
PromotionClick_MoveFirst(s, x) ==
  LET s1 == ChoosePiece(s, x)
      pm == s1.pending_promotion_move
      s2 == MakeMove(s1, pm._from, pm._to)
      s3 == RecordDeath(s2, filerank_to_num(pm._to))
  IN [s3 EXCEPT !.promoting = FALSE, !.legal = {}, !.pending_promotion_move = NoPendingMove]

\* Mutant of PromotionClick: legal is not cleared after the move.
PromotionClick_KeepsLegal(s, x) ==
  LET s1 == ChoosePiece(s, x)
      pm == s1.pending_promotion_move
      s2 == RecordDeath(s1, filerank_to_num(pm._to))
      s3 == MakeMove(s2, pm._from, pm._to)
  IN [s3 EXCEPT !.promoting = FALSE, !.pending_promotion_move = NoPendingMove]

\* Mutant of PromotionClick: a click outside the four icons does nothing.
PromotionClick_BandsOnly(s, x) ==
  LET s1 == ChoosePiece(s, x)
      pm == s1.pending_promotion_move
      s2 == RecordDeath(s1, filerank_to_num(pm._to))
      s3 == MakeMove(s2, pm._from, pm._to)
  IN IF x < 20 \/ x > 740 THEN s
     ELSE [s3 EXCEPT !.promoting = FALSE, !.legal = {}, !.pending_promotion_move = NoPendingMove]

\* The player chose a piece: the pending move is made.
PromotionClick(s, x) ==
  LET s1 == ChoosePiece(s, x)
      pm == s1.pending_promotion_move
      s2 == RecordDeath(s1, filerank_to_num(pm._to))
      s3 == MakeMove(s2, pm._from, pm._to)
  IN [s3 EXCEPT !.promoting = FALSE, !.legal = {}, !.pending_promotion_move = NoPendingMove]

\* Mutant of ResetOnCheckMate: the ledger is not cleared.
ResetOnCheckMate_KeepsDeaths(s) ==
  LET s1 == Call(s, << "get_game_state" >>) IN
  IF get_game_state(s.game) = CheckMate
  THEN [Call(s1, << "Game::new" >>) EXCEPT
          !.game = GameNew,
          !.legal = {},
          !.previous_click = None,
          !.promoting = FALSE,
          !.pending_promotion_move = NoPendingMove]
  ELSE s1

\* Checkmate makes the area under the board clickable: the game resets.
ResetOnCheckMate(s) ==
  LET s1 == Call(s, << "get_game_state" >>) IN
  IF get_game_state(s.game) = CheckMate
  THEN [Call(s1, << "Game::new" >>) EXCEPT
          !.game = GameNew,
          !.deaths = [c \in {White, Black} |-> << >>],
          !.legal = {},
          !.previous_click = None,
          !.promoting = FALSE,
          !.pending_promotion_move = NoPendingMove]
  ELSE s1

\* Mutant of BelowClick: the rows of the promotion window are not tested.
BelowClick_NoRowTest(s, x, y) ==
  ResetOnCheckMate(IF s.promoting THEN PromotionClick(s, x) ELSE s)

\* Clicks under the board grid.
BelowClick(s, x, y) ==
  ResetOnCheckMate(IF s.promoting /\ y >= 740 /\ y <= 850 THEN PromotionClick(s, x) ELSE s)

\* mouse_button_up_event
mouse_button_up_event(s, button, x, y) ==
  IF button # "Left" THEN s
  ELSE IF y < BOARD_HEIGHT THEN BoardClick(s, x, y)
  ELSE BelowClick(s, x, y)

\* ------------------------------------------------------------------------
\* Pointer input
\* ------------------------------------------------------------------------

\* The centre of the tile of the square with file f and rank r.
At(f, r) == << (f - 1) * GRID_CELL_SIZE + 45, (8 - r) * GRID_CELL_SIZE + 45 >>

\* 1.h4 d5 2.h5 Nd7 3.h6 Ndf6 4.hxg7 Kd7 5.Rh6 Ne8 6.gxf8, knight chosen.
PromotionLine ==
  << At(8, 2), At(8, 4), At(4, 7), At(4, 5), At(8, 4), At(8, 5), At(2, 8), At(4, 7),
     At(8, 5), At(8, 6), At(4, 7), At(6, 6), At(8, 6), At(7, 7), At(5, 8), At(4, 7),
     At(8, 1), At(8, 6), At(6, 6), At(5, 8), At(7, 7), At(6, 8), << 290, 800 >> >>

\* 1.e4 e5 2.Qh5 Ke7 3.Qxe5 mate, then a click under the board.
MateLine ==
  << At(5, 2), At(5, 4), At(5, 7), At(5, 5), At(4, 1), At(8, 5), At(5, 8), At(5, 7),
     At(8, 5), At(5, 5), << 400, 730 >> >>

Lines == << PromotionLine, MateLine >>

\* Clicks the user may insert anywhere.
ExtraClicks ==
  { At(8, 6), At(8, 5), At(8, 8), At(7, 7), At(6, 8), At(5, 4),
    << 10, 800 >>, << 90, 800 >>, << 290, 800 >>, << 470, 800 >>, << 650, 800 >>,
    << 400, 730 >> }

\* ------------------------------------------------------------------------
\* Specification
\* ------------------------------------------------------------------------

\* No translation is in progress.
NoConv == [pc |-> "off"]

Init ==
  /\ game = AppStateNew.game
  /\ legal = AppStateNew.legal
  /\ previous_click = AppStateNew.previous_click
  /\ promoting = AppStateNew.promoting
  /\ pending_promotion_move = AppStateNew.pending_promotion_move
  /\ deaths = AppStateNew.deaths
  /\ panicked = AppStateNew.panicked
  /\ calls = << >>
  /\ event = None
  /\ pre = AppStateNew
  /\ line = 0
  /\ pos = 0
  /\ extra = 0
  /\ conv = NoConv

\* One pointer release, handled to completion.
Release(button, x, y) ==
  \E s \in { mouse_button_up_event(AppState, button, x, y) } :
  /\ ~panicked
  /\ game' = s.game
  /\ legal' = s.legal
  /\ previous_click' = s.previous_click
  /\ promoting' = s.promoting
  /\ pending_promotion_move' = s.pending_promotion_move
  /\ deaths' = s.deaths
  /\ panicked' = s.panicked
  /\ calls' = s.calls
  /\ event' = Some([button |-> button, x |-> x, y |-> y])
  /\ pre' = AppState
  /\ conv' = conv

\* The next click of the opening line.
LineClick ==
  \E l \in 1..Len(Lines) :
    /\ line \in {0, l}
    /\ pos < Len(Lines[l])
    /\ Release("Left", Lines[l][pos + 1][1], Lines[l][pos + 1][2])
    /\ line' = l
    /\ pos' = pos + 1
    /\ extra' = extra

\* A click outside the line.
ExtraClick ==
  \E c \in ExtraClicks :
    /\ extra < MaxExtra
    /\ Release("Left", c[1], c[2])
    /\ extra' = extra + 1
    /\ UNCHANGED << line, pos >>

\* A release of another button.
OtherButton ==
  /\ extra < MaxExtra
  /\ Release("Right", 405, 405)
  /\ extra' = extra + 1
  /\ UNCHANGED << line, pos >>

Next == LineClick \/ ExtraClick \/ OtherButton

Spec == Init /\ [][Next]_vars

\* ------------------------------------------------------------------------
\* The coordinate translators on their own
\* ------------------------------------------------------------------------

\* Pointer positions a release can carry: the centre of every tile, the
\* corners of the board, and positions left of, right of and above it (the
\* button was pressed inside the window and released outside).
CoordInputs ==
  { At(f, r) : f \in 1..8, r \in 1..8 }
  \cup { << 0, 0 >>, << 719, 719 >>, << 89, 90 >> }
  \cup { << -5, 100 >>, << -100, 100 >>, << 730, 100 >>, << 100, -5 >>, << 100, -100 >> }

\* The handler's state is the freshly constructed one throughout.
CoordInit ==
  /\ game = AppStateNew.game
  /\ legal = AppStateNew.legal
  /\ previous_click = AppStateNew.previous_click
  /\ promoting = AppStateNew.promoting
  /\ pending_promotion_move = AppStateNew.pending_promotion_move
  /\ deaths = AppStateNew.deaths
  /\ panicked = AppStateNew.panicked
  /\ calls = << >>
  /\ event = None
  /\ pre = AppStateNew
  /\ line = 0
  /\ pos = 0
  /\ extra = 0
  /\ \E c \in CoordInputs : conv = [pc |-> "released", x |-> c[1], y |-> c[2]]

CoordUnchanged ==
  UNCHANGED << game, legal, previous_click, promoting, pending_promotion_move, deaths,
               panicked, calls, event, pre, line, pos, extra >>

\* `let square_clicked = (..)` of a release over the board.
Locate ==
  /\ conv.pc = "released"
  /\ conv.y < BOARD_HEIGHT
  /\ conv' = [pc |-> "located", x |-> conv.x, y |-> conv.y,
              square |-> SquareClicked(conv.x, conv.y)]
  /\ CoordUnchanged

\* num_to_filerank and to_engine_coords of the clicked square.  Where the u8
\* arithmetic overflows the build decides: a panic or the wrapped value.
Format ==
  /\ conv.pc = "located"
  /\ \/ conv' = [pc |-> "formatted", x |-> conv.x, y |-> conv.y, square |-> conv.square,
                  filerank |-> num_to_filerank(conv.square),
                  position |-> to_engine_coords(conv.square)]
     \/ /\ num_to_filerank_overflows(conv.square) \/ to_engine_coords_overflows(conv.square)
        /\ conv' = [pc |-> "panicked", x |-> conv.x, y |-> conv.y, square |-> conv.square]
  /\ CoordUnchanged

\* filerank_to_num of the string num_to_filerank produced.
Parse ==
  /\ conv.pc = "formatted"
  /\ \/ conv' = [pc |-> "parsed", x |-> conv.x, y |-> conv.y, square |-> conv.square,
                  filerank |-> conv.filerank, position |-> conv.position,
                  back |-> filerank_to_num(conv.filerank)]
     \/ /\ filerank_to_num_overflows(conv.filerank)
        /\ conv' = [pc |-> "panicked", x |-> conv.x, y |-> conv.y, square |-> conv.square]
  /\ CoordUnchanged

CoordNext == Locate \/ Format \/ Parse

CoordSpec == CoordInit /\ [][CoordNext]_vars

\* ------------------------------------------------------------------------
\* The promotion window, one choice per behaviour
\* ------------------------------------------------------------------------

\* The handler's state is the freshly constructed one throughout.
OverlayInit ==
  /\ game = AppStateNew.game
  /\ legal = AppStateNew.legal
  /\ previous_click = AppStateNew.previous_click
  /\ promoting = AppStateNew.promoting
  /\ pending_promotion_move = AppStateNew.pending_promotion_move
  /\ deaths = AppStateNew.deaths
  /\ panicked = AppStateNew.panicked
  /\ calls = << >>
  /\ event = None
  /\ pre = AppStateNew
  /\ line = 0
  /\ pos = 0
  /\ extra = 0
  /\ conv = [pc |-> "overlay"]

\* The pointer is put where draw() puts one of the icons.
AimAtIcon ==
  /\ conv.pc = "overlay"
  /\ \E i \in 1..Len(PromotionIcons) :
       conv' = [pc |-> "aimed", icon |-> PromotionIcons[i].kind, x |-> PromotionIcons[i].x]
  /\ CoordUnchanged

\* The pointer is put anywhere in the choice row.
AimAnywhere ==
  /\ conv.pc = "overlay"
  /\ \E x \in 0..MaxX : conv' = [pc |-> "aimed", icon |-> "", x |-> x]
  /\ CoordUnchanged

\* The kind the handler sets on the engine for a release at x, "" if none.
ChosenKind(x) ==
  LET s == ChoosePiece(AppState, x) IN
  IF s.calls = << >> THEN "" ELSE s.calls[1][2]

\* The if / else-if chain of the promotion block runs on the pointer's x.
Choose ==
  /\ conv.pc = "aimed"
  /\ conv' = [pc |-> "chosen", icon |-> conv.icon, x |-> conv.x, kind |-> ChosenKind(conv.x)]
  /\ CoordUnchanged

OverlayNext == AimAtIcon \/ AimAnywhere \/ Choose

OverlaySpec == OverlayInit /\ [][OverlayNext]_vars


\* ------------------------------------------------------------------------
\* Vocabulary of the properties
\* ------------------------------------------------------------------------

\* The last pointer release.
Ev == Unwrap(event)

\* The last event was a left release over the board / under the board.
WasBoardClick == event # None /\ Ev.button = "Left" /\ Ev.y < 720
WasBelowClick == event # None /\ Ev.button = "Left" /\ Ev.y >= 720

\* The GUI square of the last board click.
T == << Ev.x \div 90, Ev.y \div 90 >>

\* The last event was a click in the choice row while a promotion was pending.
WasChoiceClick == WasBelowClick /\ pre.promoting /\ Ev.y >= 740 /\ Ev.y <= 850

\* squareToAlgebraic of spec.md 4.1: 'a' + column, '8' - row.
Algebraic(sq) == << 97 + sq[1], 56 - sq[2] >>

\* The engine position of a GUI square (spec.md section 3).
EnginePosition(sq) == Position(sq[1] + 1, 8 - sq[2])

\* The piece a game holds on a GUI square (Empty when there is none).
PieceOn(g, sq) == g.board[EnginePosition(sq)]

\* The last event issued a commit to the engine.
Committed == \E i \in 1..Len(calls) : calls[i][1] = "make_move"

\* The AppState fields are what they were when the last event arrived.
Untouched ==
  /\ game = pre.game
  /\ legal = pre.legal
  /\ previous_click = pre.previous_click
  /\ promoting = pre.promoting
  /\ pending_promotion_move = pre.pending_promotion_move
  /\ deaths = pre.deaths

\* The promotion kind of the band holding x, "" outside the four bands.
BandOf(x) ==
  CASE 20 <= x /\ x <= 200 -> "queen"
    [] 200 < x /\ x <= 380 -> "knight"
    [] 380 < x /\ x <= 560 -> "rook"
    [] 560 < x /\ x <= 740 -> "bishop"
    [] OTHER -> ""

\* ------------------------------------------------------------------------
\* C1
\* ------------------------------------------------------------------------

\* The last event was a board click at T, a legal destination of the previous
\* click S # T, where S held a pawn for which T is on its promotion row.
PromotionMoveClicked ==
  /\ WasBoardClick
  /\ pre.previous_click # None
  /\ pre.previous_click # Some(T)
  /\ T \in pre.legal
  /\ \/ PieceOn(pre.game, Unwrap(pre.previous_click)) = Piece("Pawn", White) /\ T[2] = 0
     \/ PieceOn(pre.game, Unwrap(pre.previous_click)) = Piece("Pawn", Black) /\ T[2] = 7

\* C1: a click that moves a pawn onto its promotion row issues no commit;
\* promoting becomes true, the pending move is {algebraic(S), algebraic(T)}
\* and the engine is unchanged.
C1_PromotionGating ==
  PromotionMoveClicked =>
    /\ ~Committed
    /\ promoting
    /\ pending_promotion_move =
         PendingMove(Algebraic(Unwrap(pre.previous_click)), Algebraic(T))
    /\ game = pre.game

C1_Witness == PromotionMoveClicked /\ ~pre.promoting /\ promoting

\* ------------------------------------------------------------------------
\* C2
\* ------------------------------------------------------------------------

\* C2: while a promotion is pending, a release over the board changes nothing
\* and calls nothing.
C2_BoardIgnoredWhilePromoting ==
  (WasBoardClick /\ pre.promoting) => (Untouched /\ calls = << >>)

\* ------------------------------------------------------------------------
\* C3
\* ------------------------------------------------------------------------

\* A call of the log without the ledger side a piece was filed under.
Unfiled(c) == IF c[1] = "deaths.push" THEN << c[1], c[3] >> ELSE c

\* What a band click has to do, in order, for the pending move pm in game g.
ChoiceCalls(g, pm, kind) ==
  LET to == EnginePosition(<< pm._to[1] - 97, 56 - pm._to[2] >>)
      victim == g.board[to]
  IN << << "set_promotion", kind >>, << "board.get", to >> >>
     \o (IF victim # Empty THEN << << "deaths.push", victim >> >> ELSE << >>)
     \o << << "make_move", pm._from, pm._to >> >>

\* The last event was a click inside one of the four bands while promoting.
WasBandClick == WasChoiceClick /\ BandOf(Ev.x) # ""

\* C3: a band click sets the band's kind, looks up and records the piece on
\* the pending destination, commits the pending move, in this order, and
\* leaves promoting false, the pending move empty and legal empty.
C3_BandClickCommits ==
  WasBandClick =>
    LET want == ChoiceCalls(pre.game, pre.pending_promotion_move, BandOf(Ev.x)) IN
    /\ Len(calls) >= Len(want)
    /\ [i \in 1..Len(want) |-> Unfiled(calls[i])] = want
    /\ \A i \in (Len(want) + 1)..Len(calls) :
         calls[i][1] \notin {"set_promotion", "deaths.push", "make_move"}
    /\ ~promoting
    /\ pending_promotion_move = PendingMove(<< >>, << >>)
    /\ legal = {}

C3_Witness ==
  /\ WasBandClick
  /\ BandOf(Ev.x) = "rook"
  /\ Len(calls) >= 4
  /\ calls[3][1] = "deaths.push"
  /\ PieceOn(game, << 5, 0 >>) = Piece("Rook", White)

\* ------------------------------------------------------------------------
\* C4
\* ------------------------------------------------------------------------

\* The last event was the release at x = 90, y = 800 while promoting.
WasScenario3Click == WasBelowClick /\ pre.promoting /\ Ev.x = 90 /\ Ev.y = 800

\* The engine received set_promotion(kind) and then the pending move.
ChoiceThenCommit(kind) ==
  \E i, j \in 1..Len(calls) :
    /\ i < j
    /\ calls[i] = << "set_promotion", kind >>
    /\ calls[j] = << "make_move", pre.pending_promotion_move._from,
                     pre.pending_promotion_move._to >>

\* C4 as stated: the release at (90, 800) chooses the knight.
C4_Scenario3Knight ==
  WasScenario3Click =>
    /\ ChoiceThenCommit("knight")
    /\ ~promoting
    /\ pending_promotion_move = PendingMove(<< >>, << >>)

\* C4 (amended): the release at (90, 800) lies in the first band and chooses
\* the queen; the pending move is committed after the choice, promoting
\* becomes false and the pending move is emptied.
C4_Scenario3Queen ==
  WasScenario3Click =>
    /\ ChoiceThenCommit("queen")
    /\ \A i \in 1..Len(calls) : calls[i][1] = "set_promotion" => calls[i][2] = "queen"
    /\ ~promoting
    /\ pending_promotion_move = PendingMove(<< >>, << >>)

C4_Witness ==
  /\ WasScenario3Click
  /\ calls[1] = << "set_promotion", "queen" >>
  /\ PieceOn(pre.game, << 5, 0 >>) = Piece("Bishop", Black)
  /\ PieceOn(game, << 5, 0 >>) = Piece("Queen", White)

\* ------------------------------------------------------------------------
\* C5
\* ------------------------------------------------------------------------

\* The interaction state and the ledger are as AppState::new leaves them.
FreshlyConstructed ==
  /\ previous_click = None
  /\ legal = {}
  /\ ~promoting
  /\ pending_promotion_move = PendingMove(<< >>, << >>)
  /\ deaths[White] = << >>
  /\ deaths[Black] = << >>
  /\ game.board = StartBoard
  /\ game.active_color = White
  /\ game.state = InProgress

\* C5: a release under the board while the engine reports CheckMate resets
\* everything, whatever the state was.
C5_CheckMateReset ==
  (WasBelowClick /\ pre.game.state = CheckMate) =>
    (FreshlyConstructed /\ \E i \in 1..Len(calls) : calls[i] = << "Game::new" >>)

C5_Witness ==
  /\ WasBelowClick
  /\ pre.game.state = CheckMate
  /\ pre.deaths[Black] # << >>
  /\ pre.previous_click # None
  /\ FreshlyConstructed

\* ------------------------------------------------------------------------
\* C6
\* ------------------------------------------------------------------------

\* C6: a click handled as a promotion choice never resets the game in the
\* same event.
C6_ChoiceNeverResets ==
  WasChoiceClick => \A i \in 1..Len(calls) : calls[i] # << "Game::new" >>

\* ------------------------------------------------------------------------
\* C7
\* ------------------------------------------------------------------------

\* The last event was a board click on the square clicked before it.
WasRepeatedClick == WasBoardClick /\ pre.previous_click = Some(T)

\* C7: a repeated click changes nothing and calls nothing.
C7_RepeatedClickIdempotent ==
  WasRepeatedClick => (Untouched /\ calls = << >>)

C7_Witness == WasRepeatedClick /\ pre.legal # {} /\ Untouched

\* ------------------------------------------------------------------------
\* C8
\* ------------------------------------------------------------------------

\* The engine's legal destinations of a GUI square, as GUI squares.
EngineLegal(g, sq) ==
  { << t.file - 1, 8 - t.rank >> : t \in LegalFrom(g.board, g.active_color, EnginePosition(sq)) }

\* C8 as stated: after any board click without a commit, legal is the
\* engine's set for the clicked square.
C8_SelectionInvariant ==
  (WasBoardClick /\ ~Committed) => legal = EngineLegal(game, T)

\* C8 (amended): the same for every board click handled as a new selection,
\* that is without a commit, not on a legal destination starting a pending
\* promotion and not on the square clicked before.
C8_SelectionInvariantAmended ==
  (WasBoardClick /\ ~Committed /\ ~PromotionMoveClicked /\ ~WasRepeatedClick) =>
    legal = EngineLegal(game, T)

C8_Witness ==
  /\ WasBoardClick
  /\ ~Committed
  /\ ~PromotionMoveClicked
  /\ ~WasRepeatedClick
  /\ pre.legal # {}
  /\ legal # {}
  /\ legal # pre.legal

\* ------------------------------------------------------------------------
\* C9
\* ------------------------------------------------------------------------

\* C9: every piece in the capture sequence of a side has that side.
C9_LedgerKeying ==
  \A c \in {White, Black} : \A i \in 1..Len(deaths[c]) : deaths[c][i].colour = c

\* ------------------------------------------------------------------------
\* C10
\* ------------------------------------------------------------------------

\* Pieces of side c the engine board has lost since Game::new().
Removed(c) == 16 - Cardinality({ p \in Positions : game.board[p].colour = c })

\* C10: the capture sequence of a side is as long as the number of that
\* side's pieces removed from the board since the last reset.
C10_LedgerCount ==
  \A c \in {White, Black} : Len(deaths[c]) = Removed(c)

\* ------------------------------------------------------------------------
\* C11
\* ------------------------------------------------------------------------

\* The last event reset the game.
WasReset == \E i \in 1..Len(calls) : calls[i] = << "Game::new" >>

\* C11: over one event each capture sequence is unchanged, or has one
\* element appended to its previous contents, or is emptied by the reset;
\* at most one piece is recorded per event and both keys exist.
C11_LedgerAppendOnly ==
  /\ DOMAIN deaths = {White, Black}
  /\ \A c \in {White, Black} :
       \/ deaths[c] = pre.deaths[c]
       \/ /\ Len(deaths[c]) = Len(pre.deaths[c]) + 1
          /\ SubSeq(deaths[c], 1, Len(pre.deaths[c])) = pre.deaths[c]
       \/ deaths[c] = << >> /\ WasReset
  /\ Len(deaths[White]) + Len(deaths[Black])
       <= Len(pre.deaths[White]) + Len(pre.deaths[Black]) + 1

C11_Witness ==
  /\ Len(pre.deaths[Black]) = 1
  /\ Len(deaths[Black]) = 2
  /\ deaths[Black][1] = pre.deaths[Black][1]
  /\ deaths[Black][2] # deaths[Black][1]

\* ------------------------------------------------------------------------
\* C12
\* ------------------------------------------------------------------------

\* The translation in progress is of an on-board square.
ConvOnBoard ==
  /\ conv.pc \in {"located", "formatted", "parsed", "panicked"}
  /\ conv.square[1] \in 0..7
  /\ conv.square[2] \in 0..7

\* C12: an on-board square is formatted as 'a' + column, '8' - row, parsing
\* that string gives the square back, and no u8 operation overflows.
C12_RoundTrip ==
  ConvOnBoard =>
    /\ conv.pc # "panicked"
    /\ ~num_to_filerank_overflows(conv.square)
    /\ conv.pc \in {"formatted", "parsed"} =>
         /\ conv.filerank = << 97 + conv.square[1], 56 - conv.square[2] >>
         /\ ~filerank_to_num_overflows(conv.filerank)
    /\ conv.pc = "parsed" => conv.back = conv.square

C12_Witness ==
  /\ conv.pc = "parsed"
  /\ conv.square = << 0, 0 >>
  /\ conv.filerank = << 97, 56 >>
  /\ conv.back = << 0, 0 >>

\* ------------------------------------------------------------------------
\* C13
\* ------------------------------------------------------------------------

\* C13: an on-board square (column, row) has the engine position
\* {column + 1, 8 - row}, which is on the board, determines the square, and
\* is the square its algebraic name denotes; every position is hit.
C13_EnginePosition ==
  /\ (ConvOnBoard /\ conv.pc \in {"formatted", "parsed"}) =>
       /\ conv.position = [file |-> conv.square[1] + 1, rank |-> 8 - conv.square[2]]
       /\ conv.position \in Positions
       /\ conv.square = << conv.position.file - 1, 8 - conv.position.rank >>
       /\ conv.filerank[1] - 96 = conv.position.file
       /\ conv.filerank[2] - 48 = conv.position.rank
       /\ ~to_engine_coords_overflows(conv.square)
       /\ conv.square = << 0, 0 >> => conv.position = [file |-> 1, rank |-> 8]
       /\ conv.square = << 7, 7 >> => conv.position = [file |-> 8, rank |-> 1]
  /\ \A p \in Positions : \E c, r \in 0..7 : to_engine_coords(<< c, r >>) = p

C13_Witness ==
  /\ conv.pc = "formatted"
  /\ conv.square = << 7, 7 >>
  /\ conv.position = [file |-> 8, rank |-> 1]
  /\ conv.filerank = << 104, 49 >>

\* ------------------------------------------------------------------------
\* C18
\* ------------------------------------------------------------------------

\* C18: the square of every release handled as a board click is on the
\* board, and the translators never overflow on it.
C18_ClickOnBoard ==
  conv.pc \in {"located", "formatted", "parsed", "panicked"} =>
    /\ conv.square[1] \in 0..7
    /\ conv.square[2] \in 0..7
    /\ ~num_to_filerank_overflows(conv.square)
    /\ ~to_engine_coords_overflows(conv.square)
    /\ conv.pc # "panicked"

\* ------------------------------------------------------------------------
\* C14
\* ------------------------------------------------------------------------

\* The last event was a board click at T, a legal destination of the previous
\* click S # T, with no promotion pending and no pawn reaching its last row.
OrdinaryMoveClicked ==
  /\ WasBoardClick
  /\ ~pre.promoting
  /\ pre.previous_click # None
  /\ pre.previous_click # Some(T)
  /\ T \in pre.legal
  /\ ~PromotionMoveClicked

\* The ledger pushes and commits of the last event, in order.
PushesAndCommits ==
  SelectSeq(calls, LAMBDA c : c[1] \in {"deaths.push", "make_move"})

\* C14: an ordinary move records the piece standing on T, if any, and then
\* issues exactly one commit of algebraic(S) to algebraic(T); nothing is
\* recorded when T is empty; legal is empty afterwards.
C14_OrdinaryMove ==
  OrdinaryMoveClicked =>
    LET S == Unwrap(pre.previous_click)
        victim == PieceOn(pre.game, T)
        commit == << "make_move", Algebraic(S), Algebraic(T) >>
    IN /\ IF victim = Empty
          THEN PushesAndCommits = << commit >> /\ deaths = pre.deaths
          ELSE /\ PushesAndCommits = << << "deaths.push", victim.colour, victim >>, commit >>
               /\ deaths = [pre.deaths EXCEPT ![victim.colour] = Append(@, victim)]
       /\ legal = {}

\* Scenario 1: (4,6) then (4,4) from the initial position.
C14_Witness ==
  /\ OrdinaryMoveClicked
  /\ pre.game = GameNew
  /\ pre.previous_click = Some(<< 4, 6 >>)
  /\ T = << 4, 4 >>
  /\ PushesAndCommits = << << "make_move", << 101, 50 >>, << 101, 52 >> >> >>
  /\ PieceOn(game, << 4, 4 >>) = Piece("Pawn", White)
  /\ deaths = pre.deaths
  /\ legal = {}

\* ------------------------------------------------------------------------
\* C15
\* ------------------------------------------------------------------------

\* C15: legal is non-empty only while previous_click is a square holding a
\* piece of the side to move.
C15_LegalOnlyForSelection ==
  legal # {} =>
    /\ previous_click # None
    /\ PieceOn(game, Unwrap(previous_click)).colour = game.active_color

C15_Witness ==
  /\ legal # {}
  /\ promoting
  /\ game.active_color = White
  /\ PieceOn(game, Unwrap(previous_click)) = Piece("Pawn", White)

\* ------------------------------------------------------------------------
\* C16
\* ------------------------------------------------------------------------

\* The GUI square an algebraic name denotes (spec.md 4.1).
SquareOf(a) == << a[1] - 97, 56 - a[2] >>

\* C16: promoting holds exactly while a pawn move to the back rank is
\* unresolved: the pending move is a legal move of a pawn of the side to
\* move onto its promotion row; otherwise the pending move is empty.
C16_PendingIsUnresolvedPawnMove ==
  IF promoting
  THEN LET from == SquareOf(pending_promotion_move._from)
           to == SquareOf(pending_promotion_move._to)
       IN /\ PieceOn(game, from) = Piece("Pawn", game.active_color)
          /\ to[2] = (IF game.active_color = White THEN 0 ELSE 7)
          /\ to \in EngineLegal(game, from)
  ELSE pending_promotion_move = PendingMove(<< >>, << >>)

\* ------------------------------------------------------------------------
\* C17
\* ------------------------------------------------------------------------

\* The i-th call of the last event is a commit the engine accepts: the game
\* is as the event found it when the call is made.
LegalCommit(i) ==
  /\ PieceOn(pre.game, SquareOf(calls[i][2])).colour = pre.game.active_color
  /\ SquareOf(calls[i][3]) \in EngineLegal(pre.game, SquareOf(calls[i][2]))

\* C17: every commit issued is legal when it is issued.
C17_CommitsAreLegal ==
  \A i \in 1..Len(calls) : calls[i][1] = "make_move" => LegalCommit(i)

\* ------------------------------------------------------------------------
\* C19
\* ------------------------------------------------------------------------

\* The engine rejected a commit of the last event.
CommitRejected ==
  \E i \in 1..Len(calls) : calls[i][1] = "make_move" /\ ~LegalCommit(i)

\* C19: a rejected commit raises nothing and the interaction state advances
\* as after an accepted one, while the engine keeps its board and side.
C19_FailureAbsorbed ==
  CommitRejected =>
    /\ ~panicked
    /\ legal = {}
    /\ WasChoiceClick =>
         (~promoting /\ pending_promotion_move = PendingMove(<< >>, << >>))
    /\ IF WasReset THEN game = GameNew
       ELSE /\ game.board = pre.game.board
            /\ game.active_color = pre.game.active_color

C19_Witness ==
  /\ CommitRejected
  /\ WasChoiceClick
  /\ ~WasReset
  /\ ~promoting
  /\ legal = {}
  /\ game.board = pre.game.board
  /\ game.active_color = Black

\* ------------------------------------------------------------------------
\* C20
\* ------------------------------------------------------------------------

\* The last event was an immediate commit from a board click.
WasImmediateCommit == WasBoardClick /\ Committed

\* C20 as stated: after an immediate commit previous_click is none.
C20_IdleAfterCommit == WasImmediateCommit => previous_click = None

\* C20 (amended): after an immediate commit from S, previous_click is still
\* S and legal is empty; the next board click on another square queries the
\* engine and becomes previous_click, a click on S does nothing.
C20_AfterCommit ==
  /\ [](WasImmediateCommit =>
          /\ previous_click = pre.previous_click
          /\ previous_click # None
          /\ legal = {})
  /\ [][(WasImmediateCommit /\ WasBoardClick') =>
          IF Some(T') = previous_click
          THEN Untouched' /\ calls' = << >>
          ELSE /\ calls' = << << "get_possible_moves", Algebraic(T') >> >>
               /\ previous_click' = Some(T')
               /\ legal' = EngineLegal(game, T')
               /\ game' = game]_vars

\* After 1.e4 the click on e7.
C20_Witness ==
  /\ WasBoardClick
  /\ pre.previous_click = Some(<< 4, 6 >>)
  /\ pre.legal = {}
  /\ pre.game.active_color = Black
  /\ PieceOn(pre.game, << 4, 6 >>) = Empty
  /\ PieceOn(pre.game, << 4, 4 >>) = Piece("Pawn", White)
  /\ previous_click = Some(<< 4, 1 >>)
  /\ calls = << << "get_possible_moves", << 101, 55 >> >> >>
  /\ legal # {}

\* ------------------------------------------------------------------------
\* C21
\* ------------------------------------------------------------------------

\* The last event was a click in the choice row, outside the four bands,
\* while a promotion was pending.
WasOffBandClick == WasChoiceClick /\ BandOf(Ev.x) = ""

WasIdleBelowClick ==
  /\ WasBelowClick
  /\ ~WasChoiceClick
  /\ get_game_state(pre.game) # CheckMate

\* C22 as stated: such a release changes nothing and calls nothing.
C22_BelowClickNoCall == WasIdleBelowClick => (Untouched /\ calls = << >>)

\* C22 (amended): such a release changes nothing; the only engine call is
\* the query of the game state.
C22_BelowClickFrame ==
  WasIdleBelowClick => (Untouched /\ calls = << << "get_game_state" >> >>)

\* A release under the board, above the choice row, while promoting.
C22_Witness ==
  /\ WasIdleBelowClick
  /\ pre.promoting
  /\ Ev.y = 730
  /\ promoting
  /\ pending_promotion_move = PendingMove(<< 103, 55 >>, << 102, 56 >>)
  /\ deaths[Black] # << >>

\* ------------------------------------------------------------------------
\* C23
\* ------------------------------------------------------------------------

\* The last event was a board click at T, neither the previous click nor a
\* legal destination, with no promotion pending.
FreshSelectionClicked ==
  /\ WasBoardClick
  /\ ~pre.promoting
  /\ pre.previous_click # Some(T)
  /\ T \notin pre.legal

\* C23: a fresh selection sets previous_click to T and legal to the engine's
\* moves for T, raises nothing, and leaves the game, the ledger, promoting
\* and the pending move as they were.
C23_FreshSelection ==
  FreshSelectionClicked =>
    /\ previous_click = Some(T)
    /\ legal = EngineLegal(pre.game, T)
    /\ ~panicked
    /\ game = pre.game
    /\ deaths = pre.deaths
    /\ promoting = pre.promoting
    /\ pending_promotion_move = pre.pending_promotion_move

\* A piece of the side not to move is clicked after another selection.
C23_Witness ==
  /\ FreshSelectionClicked
  /\ pre.previous_click # None
  /\ pre.legal # {}
  /\ PieceOn(pre.game, T) # Empty
  /\ PieceOn(pre.game, T).colour # pre.game.active_color
  /\ previous_click = Some(T)
  /\ legal = {}

\* ------------------------------------------------------------------------
\* C24
\* ------------------------------------------------------------------------

\* The four tests of the promotion block, each taken by itself.
InBand(kind, x) ==
  CASE kind = "queen" -> x >= 20 /\ x <= 200
    [] kind = "knight" -> x > 200 /\ x <= 380
    [] kind = "rook" -> x > 380 /\ x <= 560
    [] kind = "bishop" -> x > 560 /\ x <= 740

\* C24: the icons are drawn left to right as queen, knight, rook, bishop; no
\* x lies in two bands; a release at the x of an icon sets the kind of that
\* icon, and any kind that is set is the one whose band holds x.
C24_OverlayMatchesBands ==
  /\ [i \in 1..Len(PromotionIcons) |-> PromotionIcons[i].kind]
       = << "queen", "knight", "rook", "bishop" >>
  /\ \A i \in 1..(Len(PromotionIcons) - 1) : PromotionIcons[i].x < PromotionIcons[i + 1].x
  /\ conv.pc = "chosen" =>
       /\ Cardinality({ k \in {"queen", "knight", "rook", "bishop"} : InBand(k, conv.x) }) <= 1
       /\ conv.kind # "" => InBand(conv.kind, conv.x)
       /\ conv.icon # "" => conv.kind = conv.icon

C24_Witness ==
  /\ conv.pc = "chosen"
  /\ conv.icon = "bishop"
  /\ conv.x = 590
  /\ conv.kind = "bishop"

\* ------------------------------------------------------------------------
\* C25
\* ------------------------------------------------------------------------

\* The last event was a board click treated as a move.
WasMoveClick ==
  /\ WasBoardClick
  /\ T \in pre.legal
  /\ pre.previous_click # Some(T)

\* C25: a board click treated as a move finds a previous click with a piece
\* on it, a choice click finds a pending destination of two characters, and
\* the handler never aborts, whatever is clicked.
C25_NeverAborts ==
  /\ WasMoveClick =>
       /\ pre.previous_click # None
       /\ PieceOn(pre.game, Unwrap(pre.previous_click)) # Empty
  /\ WasChoiceClick => Len(pre.pending_promotion_move._to) = 2
  /\ ~panicked
  /\ conv.pc # "panicked"

====
